---- MODULE Spec2Model ----
(***************************************************************************)
(* enhance_features (code/data/features/enhance_features.py): derivation   *)
(* of the 'derived' feature mapping from a bundle of static PE features.   *)
(*                                                                         *)
(* Python dicts are functions whose DOMAIN is the key set; a subscription  *)
(* d[k] with k outside DOMAIN d raises KeyError.  Numbers produced by the  *)
(* code are floats: they are records [k, n, d], k = "fin" for the exact    *)
(* rational n/d in lowest terms, "nan" and "ninf" for the IEEE values      *)
(* numpy's log1p returns outside its domain.  The caller's bundle and the  *)
(* copy made at line 21 are separate objects of a heap, so that a write    *)
(* through an alias is visible in the caller's object.                     *)
(***************************************************************************)
EXTENDS Integers, Sequences, FiniteSets, TLC

\* ------------------------------------------------------------------------
\* Bounds of the explored input space

\* an input bundle differs from the base bundle by at most MaxEdits edits
MaxEdits == 2

\* ------------------------------------------------------------------------
\* Dictionaries

EmptyDict == <<>>

Has(d, k) == k \in DOMAIN d

SetItem(d, k, v) == [x \in DOMAIN d \cup {k} |-> IF x = k THEN v ELSE d[x]]

Update(d, e) == [x \in DOMAIN d \cup DOMAIN e |-> IF x \in DOMAIN e THEN e[x] ELSE d[x]]

DelItem(d, k) == [x \in DOMAIN d \ {k} |-> d[x]]

Range(s) == {s[i] : i \in 1..Len(s)}

\* ------------------------------------------------------------------------
\* Float values

Abs(x) == IF x < 0 THEN -x ELSE x

RECURSIVE Gcd(_, _)
Gcd(a, b) == IF b = 0 THEN a ELSE Gcd(b, a % b)

\* the rational n/d (d # 0) in lowest terms with a positive denominator
Fin(n, d) ==
    LET g == Gcd(Abs(n), Abs(d))
        s == IF d < 0 THEN -1 ELSE 1
    IN  [k |-> "fin", n |-> (s * n) \div g, d |-> (s * d) \div g]

Zero == [k |-> "fin", n |-> 0, d |-> 1]

NaN == [k |-> "nan", n |-> 0, d |-> 1]

NegInf == [k |-> "ninf", n |-> 0, d |-> 1]

FAdd(a, b) ==
    IF a.k = "nan" \/ b.k = "nan" THEN NaN
    ELSE IF a.k = "ninf" \/ b.k = "ninf" THEN NegInf
    ELSE Fin(a.n * b.d + b.n * a.d, a.d * b.d)

\* division of a float by a positive integer constant
FDivInt(a, c) == IF a.k = "fin" THEN Fin(a.n, a.d * c) ELSE a

\* natural logarithm of a positive integer, in thousandths
LnMilli(x) ==
    CASE x = 1 -> 0
      [] x = 2 -> 693
      [] x = 3 -> 1099
      [] x = 4 -> 1386
      [] x = 5 -> 1609
      [] x = 6 -> 1792
      [] x = 7 -> 1946
      [] x = 2049 -> 7625

\* numpy.log1p on an integer: nan below -1, -inf at -1 (a RuntimeWarning, no
\* exception), the logarithm of 1 + x otherwise
log1p(x) ==
    IF x < -1 THEN NaN
    ELSE IF x = -1 THEN NegInf
    ELSE Fin(LnMilli(1 + x), 1000)

\* ------------------------------------------------------------------------
\* Strings.  A name is the sequence of its characters.

UpperCase == <<"A","B","C","D","E","F","G","H","I","J","K","L","M","N","O","P","Q","R","S","T","U","V","W","X","Y","Z">>

LowerCase == <<"a","b","c","d","e","f","g","h","i","j","k","l","m","n","o","p","q","r","s","t","u","v","w","x","y","z">>

LowerChar(c) ==
    IF \E i \in 1..26 : UpperCase[i] = c
    THEN LowerCase[CHOOSE i \in 1..26 : UpperCase[i] = c]
    ELSE c

\* a comparison that keeps the case of the name
lower_keepcase(s) == s

\* str.lower()
lower(s) == [i \in 1..Len(s) |-> LowerChar(s[i])]

\* keyword in name
Contains(name, keyword) ==
    \E i \in 1..(Len(name) - Len(keyword) + 1) :
        SubSeq(name, i, i + Len(keyword) - 1) = keyword

api_categories ==
    ("network" :> {<<"s","o","c","k","e","t">>,
            <<"c","o","n","n","e","c","t">>,
            <<"s","e","n","d">>,
            <<"r","e","c","v">>,
            <<"b","i","n","d">>,
            <<"l","i","s","t","e","n">>,
            <<"a","c","c","e","p","t">>,
            <<"i","n","e","t">>,
            <<"h","t","t","p">>,
            <<"f","t","p">>})
    @@ ("file" :> {<<"f","i","l","e">>,
            <<"r","e","a","d">>,
            <<"w","r","i","t","e">>,
            <<"c","r","e","a","t","e">>,
            <<"d","e","l","e","t","e">>,
            <<"m","o","v","e">>,
            <<"c","o","p","y">>,
            <<"f","i","n","d">>})
    @@ ("registry" :> {<<"r","e","g">>,
            <<"r","e","g","i","s","t","r","y">>,
            <<"h","k","e","y">>})
    @@ ("process" :> {<<"p","r","o","c","e","s","s">>,
            <<"t","h","r","e","a","d">>,
            <<"v","i","r","t","u","a","l">>,
            <<"m","e","m","o","r","y">>,
            <<"a","l","l","o","c">>,
            <<"f","r","e","e">>})
    @@ ("crypto" :> {<<"c","r","y","p","t">>,
            <<"d","e","c","r","y","p","t">>,
            <<"e","n","c","r","y","p","t">>,
            <<"h","a","s","h">>,
            <<"r","c","4">>,
            <<"a","e","s">>,
            <<"r","s","a">>})
    @@ ("ui" :> {<<"w","i","n","d","o","w">>,
            <<"d","i","a","l","o","g">>,
            <<"g","u","i">>,
            <<"m","e","n","u">>,
            <<"b","u","t","t","o","n">>,
            <<"d","i","s","p","l","a","y">>})

\* f'derived_{category}ApisRatio'
ApisRatioKey(category) ==
    CASE category = "network" -> "derived_networkApisRatio"
      [] category = "file" -> "derived_fileApisRatio"
      [] category = "registry" -> "derived_registryApisRatio"
      [] category = "process" -> "derived_processApisRatio"
      [] category = "crypto" -> "derived_cryptoApisRatio"
      [] category = "ui" -> "derived_uiApisRatio"

\* ------------------------------------------------------------------------
\* Input bundles

CreateFileW == <<"C","r","e","a","t","e","F","i","l","e","W">>

Send == <<"S","e","n","d">>

RegOpenKeyA == <<"R","e","g","O","p","e","n","K","e","y","A">>

ReadProcessMemory == <<"R","e","a","d","P","r","o","c","e","s","s","M","e","m","o","r","y">>

Sleep == <<"S","l","e","e","p">>

CryptHashData == <<"C","r","y","p","t","H","a","s","h","D","a","t","a">>

GetMenu == <<"G","e","t","M","e","n","u">>

HttpSendRequestA == <<"H","t","t","p","S","e","n","d","R","e","q","u","e","s","t","A">>

NameA == <<"A">>

NameB == <<"B">>

BaseSections ==
    [x \in {"pesectionProcessed_sectionsMinSize", "pesectionProcessed_sectionsMaxSize",
            "pesectionProcessed_sectionsMeanSize", "pesectionProcessed_sectionsMeanVirtualSize",
            "pesectionProcessed_sectionsMaxEntropy", "pesectionProcessed_sectionsMinEntropy",
            "pesectionProcessed_sectionsMeanEntropy", "pesectionProcessed_resources_nb",
            "pesectionProcessed_resourcesMeanSize", "pesectionProcessed_resourcesMeanEntropy",
            "pesectionProcessed_resourcesMaxSize", "pesectionProcessed_resourcesMinSize"} |->
        CASE x = "pesectionProcessed_sectionsMinSize" -> 512
          [] x = "pesectionProcessed_sectionsMaxSize" -> 4096
          [] x = "pesectionProcessed_sectionsMeanSize" -> 2048
          [] x = "pesectionProcessed_sectionsMeanVirtualSize" -> 3072
          [] x = "pesectionProcessed_sectionsMaxEntropy" -> 7
          [] x = "pesectionProcessed_sectionsMinEntropy" -> 2
          [] x = "pesectionProcessed_sectionsMeanEntropy" -> 5
          [] x = "pesectionProcessed_resources_nb" -> 2
          [] x = "pesectionProcessed_resourcesMeanSize" -> 100
          [] x = "pesectionProcessed_resourcesMeanEntropy" -> 3
          [] x = "pesectionProcessed_resourcesMaxSize" -> 150
          [] x = "pesectionProcessed_resourcesMinSize" -> 50]

BaseHeaders ==
    [x \in {"header_SizeOfHeaders", "header_SizeOfCode",
            "header_SizeOfUninitializedData", "header_SizeOfInitializedData"} |->
        CASE x = "header_SizeOfHeaders" -> 1024
          [] x = "header_SizeOfCode" -> 512
          [] x = "header_SizeOfUninitializedData" -> 256
          [] x = "header_SizeOfInitializedData" -> 768]

BaseGenerics ==
    [x \in {"generic_fileSize", "generic_fileEntropy"} |->
        IF x = "generic_fileSize" THEN 2048 ELSE 6]

SubMappings == {"sections", "headers", "generics"}

Collections == {"imps", "exps", "dlls"}

BundleKeys == SubMappings \cup Collections \cup {"rich"}

BaseBundle ==
    [x \in BundleKeys |->
        CASE x = "sections" -> BaseSections
          [] x = "headers" -> BaseHeaders
          [] x = "generics" -> BaseGenerics
          [] x = "imps" -> <<CreateFileW, Send, RegOpenKeyA>>
          [] x = "exps" -> <<NameA>>
          [] x = "dlls" -> <<NameA, NameB, NameA>>
          [] x = "rich" -> "rich-header"]

\* the denominators and guards of the stages, and the values that an edit
\* gives them
ZeroableKeys ==
    {<<"sections", "pesectionProcessed_sectionsMinSize">>,
     <<"sections", "pesectionProcessed_sectionsMeanSize">>,
     <<"sections", "pesectionProcessed_sectionsMaxEntropy">>,
     <<"sections", "pesectionProcessed_resources_nb">>,
     <<"sections", "pesectionProcessed_resourcesMeanSize">>,
     <<"generics", "generic_fileSize">>}

FileSizes == {-2, -1}

ImportLists ==
    {<<>>, <<NameA, NameB>>, <<ReadProcessMemory, Sleep, ReadProcessMemory>>,
     <<CryptHashData, GetMenu, HttpSendRequestA, Send>>}

OtherLists == {<<>>, <<NameB, NameB>>}

Edit(op, sub, key, val, list) == [op |-> op, sub |-> sub, key |-> key, val |-> val, list |-> list]

Edits ==
    {Edit("deltop", k, "", 0, <<>>) : k \in BundleKeys}
    \cup {Edit("del", "sections", k, 0, <<>>) : k \in DOMAIN BaseSections}
    \cup {Edit("del", "headers", k, 0, <<>>) : k \in DOMAIN BaseHeaders}
    \cup {Edit("del", "generics", k, 0, <<>>) : k \in DOMAIN BaseGenerics}
    \cup {Edit("set", z[1], z[2], 0, <<>>) : z \in ZeroableKeys}
    \cup {Edit("set", "generics", "generic_fileSize", v, <<>>) : v \in FileSizes}
    \cup {Edit("list", "imps", "", 0, l) : l \in ImportLists}
    \cup {Edit("list", k, "", 0, l) : k \in {"exps", "dlls"}, l \in OtherLists}

\* an edit of a key that an earlier edit deleted leaves the bundle as it is
ApplyEdit(b, e) ==
    CASE e.op = "deltop" -> DelItem(b, e.sub)
      [] e.op = "del" ->
            IF Has(b, e.sub) THEN [b EXCEPT ![e.sub] = DelItem(@, e.key)] ELSE b
      [] e.op = "set" ->
            IF Has(b, e.sub) /\ Has(b[e.sub], e.key)
            THEN [b EXCEPT ![e.sub][e.key] = e.val] ELSE b
      [] e.op = "list" ->
            IF Has(b, e.sub) THEN [b EXCEPT ![e.sub] = e.list] ELSE b

RECURSIVE Bundles(_)
Bundles(n) ==
    IF n = 0 THEN {BaseBundle}
    ELSE LET P == Bundles(n - 1)
         IN  P \cup {ApplyEdit(b, e) : b \in P, e \in Edits}

\* ------------------------------------------------------------------------
\* The stages of enhance_features.  A try block is evaluated in the order of
\* the code; its value is the 'derived' mapping at the point it was left and
\* the exception that left it.

Ok(d) == [d |-> d, exc |-> "none"]

Raise(d) == [d |-> d, exc |-> "KeyError"]

\* lines 30-42, the body of the first try
SectionTry(sections, d0) ==
    LET s1 == IF ~Has(sections, "pesectionProcessed_sectionsMinSize") THEN Raise(d0)
              ELSE IF sections["pesectionProcessed_sectionsMinSize"] # 0
              THEN IF ~Has(sections, "pesectionProcessed_sectionsMaxSize") THEN Raise(d0)
                   ELSE Ok(SetItem(d0, "derived_sectionSizeRatio",
                            Fin(sections["pesectionProcessed_sectionsMaxSize"],
                                sections["pesectionProcessed_sectionsMinSize"])))
              ELSE Ok(SetItem(d0, "derived_sectionSizeRatio", Zero))
        s2 == IF s1.exc # "none" THEN s1
              ELSE IF ~Has(sections, "pesectionProcessed_sectionsMeanSize") THEN Raise(s1.d)
              ELSE IF sections["pesectionProcessed_sectionsMeanSize"] # 0
              THEN IF ~Has(sections, "pesectionProcessed_sectionsMeanVirtualSize") THEN Raise(s1.d)
                   ELSE Ok(SetItem(s1.d, "derived_virtualToRawRatio",
                            Fin(sections["pesectionProcessed_sectionsMeanVirtualSize"],
                                sections["pesectionProcessed_sectionsMeanSize"])))
              ELSE Ok(SetItem(s1.d, "derived_virtualToRawRatio", Zero))
        s3 == IF s2.exc # "none" THEN s2
              ELSE IF ~Has(sections, "pesectionProcessed_sectionsMaxEntropy")
                      \/ ~Has(sections, "pesectionProcessed_sectionsMinEntropy") THEN Raise(s2.d)
              ELSE Ok(SetItem(s2.d, "derived_entropyVariance",
                        Fin(sections["pesectionProcessed_sectionsMaxEntropy"]
                            - sections["pesectionProcessed_sectionsMinEntropy"], 1)))
        s4 == IF s3.exc # "none" THEN s3
              ELSE IF sections["pesectionProcessed_sectionsMaxEntropy"] # 0
              THEN IF ~Has(sections, "pesectionProcessed_sectionsMeanEntropy") THEN Raise(s3.d)
                   ELSE Ok(SetItem(s3.d, "derived_meanToMaxEntropyRatio",
                            Fin(sections["pesectionProcessed_sectionsMeanEntropy"],
                                sections["pesectionProcessed_sectionsMaxEntropy"])))
              ELSE Ok(SetItem(s3.d, "derived_meanToMaxEntropyRatio", Zero))
    IN  s4

SectionKeys ==
    {"derived_sectionSizeRatio", "derived_virtualToRawRatio",
     "derived_entropyVariance", "derived_meanToMaxEntropyRatio"}

SizeKeys ==
    {"derived_headerSizeRatio", "derived_codeSizeRatio", "derived_entropyToSizeRatio",
     "derived_uninitializedRatio", "derived_initializedRatio"}

ResourceKeys ==
    {"derived_resourceDensity", "derived_resourceComplexity", "derived_resourceSizeVariance"}

\* the mapping of an except handler's derived.update({...: 0})
Zeros(keys) == [x \in keys |-> Zero]

\* a stage that gives up all four outputs as soon as one denominator is zero
SectionStage_zeroall(sections, d0) ==
    LET t == SectionTry(sections, d0)
        zerodenominator ==
            \E x \in {"pesectionProcessed_sectionsMinSize", "pesectionProcessed_sectionsMeanSize",
                      "pesectionProcessed_sectionsMaxEntropy"} :
                Has(sections, x) /\ sections[x] = 0
    IN  IF t.exc = "KeyError" \/ zerodenominator
        THEN Update(t.d, Zeros(SectionKeys)) ELSE t.d

\* lines 29-49
SectionStage(sections, d0) ==
    LET t == SectionTry(sections, d0)
    IN  IF t.exc = "KeyError" THEN Update(t.d, Zeros(SectionKeys)) ELSE t.d

\* one assignment of lines 54-58: derived[key] = num[numkey] / generics['generic_fileSize']
SizeRatio(st, key, num, numkey, generics) ==
    IF st.exc # "none" THEN st
    ELSE IF ~Has(num, numkey) THEN Raise(st.d)
    ELSE Ok(SetItem(st.d, key, Fin(num[numkey], generics["generic_fileSize"])))

\* lines 53-66, the body of the second try
SizeTry(headers, generics, d0) ==
    IF ~Has(generics, "generic_fileSize") THEN Raise(d0)
    ELSE IF generics["generic_fileSize"] # 0
    THEN LET s1 == SizeRatio(Ok(d0), "derived_headerSizeRatio", headers, "header_SizeOfHeaders", generics)
             s2 == SizeRatio(s1, "derived_codeSizeRatio", headers, "header_SizeOfCode", generics)
             s3 == SizeRatio(s2, "derived_entropyToSizeRatio", generics, "generic_fileEntropy", generics)
             s4 == SizeRatio(s3, "derived_uninitializedRatio", headers, "header_SizeOfUninitializedData", generics)
             s5 == SizeRatio(s4, "derived_initializedRatio", headers, "header_SizeOfInitializedData", generics)
         IN  s5
    ELSE Ok(Update(d0, Zeros(SizeKeys)))

\* lines 52-74
SizeStage(headers, generics, d0) ==
    LET t == SizeTry(headers, generics, d0)
    IN  IF t.exc = "KeyError" THEN Update(t.d, Zeros(SizeKeys)) ELSE t.d

\* a lookup that takes an absent collection for an empty one
LoadCollections_default(fd) ==
    [exc |-> "none",
     imps |-> IF Has(fd, "imps") THEN Range(fd["imps"]) ELSE {},
     exps |-> IF Has(fd, "exps") THEN Range(fd["exps"]) ELSE {},
     dlls |-> IF Has(fd, "dlls") THEN Range(fd["dlls"]) ELSE {}]

\* lines 77-79: the three subscriptions and set(...)
LoadCollections(fd) ==
    IF Collections \subseteq DOMAIN fd
    THEN [exc |-> "none", imps |-> Range(fd["imps"]), exps |-> Range(fd["exps"]),
          dlls |-> Range(fd["dlls"])]
    ELSE [exc |-> "KeyError", imps |-> {}, exps |-> {}, dlls |-> {}]

\* line 95
category_count(imps, keywords) ==
    Cardinality({imp \in imps : \E keyword \in keywords : Contains(lower(imp), keyword)})

\* lines 92-99
ApiRatios(imps) ==
    LET total_apis == Cardinality(imps)
    IN  [x \in {ApisRatioKey(c) : c \in DOMAIN api_categories} |->
            LET category == CHOOSE c \in DOMAIN api_categories : ApisRatioKey(c) = x
            IN  IF total_apis > 0
                THEN Fin(category_count(imps, api_categories[category]), total_apis)
                ELSE Zero]

\* a ratio that is 0 when nothing is exported
ImportToExportRatio_zero(imps, exps) ==
    IF Cardinality(exps) > 0 THEN Fin(Cardinality(imps), Cardinality(exps)) ELSE Zero

\* line 102
ImportToExportRatio(imps, exps) ==
    IF Cardinality(exps) > 0 THEN Fin(Cardinality(imps), Cardinality(exps))
    ELSE Fin(Cardinality(imps), 1)

\* line 103
AvgImportsPerDll(imps, dlls) ==
    IF Cardinality(dlls) > 0 THEN Fin(Cardinality(imps), Cardinality(dlls)) ELSE Zero

\* lines 92-103
ImportStage(imps, exps, dlls, d0) ==
    SetItem(SetItem(Update(d0, ApiRatios(imps)),
                    "derived_importToExportRatio", ImportToExportRatio(imps, exps)),
            "derived_avgImportsPerDll", AvgImportsPerDll(imps, dlls))

\* lines 107-118, the body of the fourth try
ResourceTry(sections, generics, d0) ==
    IF ~Has(sections, "pesectionProcessed_resources_nb") THEN Ok(d0)
    ELSE
    LET nb == sections["pesectionProcessed_resources_nb"]
        s1 == IF ~Has(generics, "generic_fileSize") THEN Raise(d0)
              ELSE IF generics["generic_fileSize"] > 0
              THEN Ok(SetItem(d0, "derived_resourceDensity",
                        Fin(nb * 1024, generics["generic_fileSize"])))
              ELSE Ok(SetItem(d0, "derived_resourceDensity", Zero))
        s2 == IF s1.exc # "none" THEN s1
              ELSE IF nb > 0
              THEN IF ~Has(sections, "pesectionProcessed_resourcesMeanSize")
                      \/ ~Has(sections, "pesectionProcessed_resourcesMeanEntropy") THEN Raise(s1.d)
                   ELSE Ok(SetItem(s1.d, "derived_resourceComplexity",
                            Fin(sections["pesectionProcessed_resourcesMeanSize"]
                                * sections["pesectionProcessed_resourcesMeanEntropy"], 1)))
              ELSE Ok(SetItem(SetItem(s1.d, "derived_resourceComplexity", Zero),
                              "derived_resourceSizeVariance", Zero))
        s3 == IF s2.exc # "none" \/ nb <= 0 THEN s2
              ELSE IF sections["pesectionProcessed_resourcesMeanSize"] # 0
              THEN IF ~Has(sections, "pesectionProcessed_resourcesMaxSize")
                      \/ ~Has(sections, "pesectionProcessed_resourcesMinSize") THEN Raise(s2.d)
                   ELSE Ok(SetItem(s2.d, "derived_resourceSizeVariance",
                            Fin(sections["pesectionProcessed_resourcesMaxSize"]
                                - sections["pesectionProcessed_resourcesMinSize"],
                                sections["pesectionProcessed_resourcesMeanSize"])))
              ELSE Ok(SetItem(s2.d, "derived_resourceSizeVariance", Zero))
    IN  s3

\* lines 106-124
ResourceStage(sections, generics, d0) ==
    LET t == ResourceTry(sections, generics, d0)
    IN  IF t.exc = "KeyError" THEN Update(t.d, Zeros(ResourceKeys)) ELSE t.d

\* lines 129-134; numpy reports a logarithm outside its domain by a warning,
\* which is neither a KeyError nor a ValueError
ComplexityTry(sections, generics, imps, dlls, d0) ==
    IF ~Has(generics, "generic_fileSize") \/ ~Has(generics, "generic_fileEntropy")
       \/ ~Has(sections, "pesectionProcessed_sectionsMaxEntropy") THEN Raise(d0)
    ELSE
    LET size_complexity == FDivInt(log1p(generics["generic_fileSize"]), 20)
        entropy_complexity == Fin(generics["generic_fileEntropy"], 8)
        import_complexity == FDivInt(log1p(Cardinality(imps)), 10)
        section_complexity ==
            Fin(sections["pesectionProcessed_sectionsMaxEntropy"] * Cardinality(dlls), 100)
    IN  Ok(SetItem(d0, "derived_overallComplexity",
            FDivInt(FAdd(FAdd(FAdd(size_complexity, entropy_complexity),
                              import_complexity), section_complexity), 4)))

\* lines 128-136
ComplexityStage(sections, generics, imps, dlls, d0) ==
    LET t == ComplexityTry(sections, generics, imps, dlls, d0)
    IN  IF t.exc = "KeyError" THEN SetItem(t.d, "derived_overallComplexity", Zero) ELSE t.d

\* ------------------------------------------------------------------------
\* The call enhance_features(feature_dict)

VARIABLES heap, enhanced_features, derived, imps, exps, dlls, pc, exc, result

vars == <<heap, enhanced_features, derived, imps, exps, dlls, pc, exc, result>>

None == "None"

\* the parameter: a reference to the caller's bundle
feature_dict == "caller"

\* an assignment in place of the copy: the same object under a second name
copy_alias(h, ref) == [heap |-> h, ref |-> ref]

\* dict.copy(): a new object with the same items
copy(h, ref) == [heap |-> h @@ ("copy" :> h[ref]), ref |-> "copy"]

\* lines 24-26: the locals are the caller's own sub-mappings
sections == heap[feature_dict]["sections"]

headers == heap[feature_dict]["headers"]

generics == heap[feature_dict]["generics"]

Init ==
    /\ \E b \in Bundles(MaxEdits) : heap = (feature_dict :> b)
    /\ enhanced_features = None
    /\ derived = EmptyDict
    /\ imps = {}
    /\ exps = {}
    /\ dlls = {}
    /\ pc = "copy"
    /\ exc = "none"
    /\ result = None

\* an exception that no handler catches leaves the function
Abort(e) ==
    /\ pc' = "raised"
    /\ exc' = e

\* lines 21-22
Copy ==
    /\ pc = "copy"
    /\ LET c == copy(heap, feature_dict)
       IN  /\ heap' = c.heap
           /\ enhanced_features' = c.ref
    /\ derived' = EmptyDict
    /\ pc' = "load"
    /\ UNCHANGED <<imps, exps, dlls, exc, result>>

\* lines 24-26
Load ==
    /\ pc = "load"
    /\ IF SubMappings \subseteq DOMAIN heap[feature_dict]
       THEN pc' = "sections" /\ exc' = exc
       ELSE Abort("KeyError")
    /\ UNCHANGED <<heap, enhanced_features, derived, imps, exps, dlls, result>>

\* lines 29-49
Sections ==
    /\ pc = "sections"
    /\ derived' = SectionStage(sections, derived)
    /\ pc' = "sizes"
    /\ UNCHANGED <<heap, enhanced_features, imps, exps, dlls, exc, result>>

\* lines 52-74
Sizes ==
    /\ pc = "sizes"
    /\ derived' = SizeStage(headers, generics, derived)
    /\ pc' = "imports"
    /\ UNCHANGED <<heap, enhanced_features, imps, exps, dlls, exc, result>>

\* lines 77-103
Imports ==
    /\ pc = "imports"
    /\ LET c == LoadCollections(heap[feature_dict])
       IN  IF c.exc = "none"
           THEN /\ imps' = c.imps
                /\ exps' = c.exps
                /\ dlls' = c.dlls
                /\ derived' = ImportStage(c.imps, c.exps, c.dlls, derived)
                /\ pc' = "resources"
                /\ exc' = exc
           ELSE /\ Abort(c.exc)
                /\ UNCHANGED <<imps, exps, dlls, derived>>
    /\ UNCHANGED <<heap, enhanced_features, result>>

\* lines 106-124
Resources ==
    /\ pc = "resources"
    /\ derived' = ResourceStage(sections, generics, derived)
    /\ pc' = "complexity"
    /\ UNCHANGED <<heap, enhanced_features, imps, exps, dlls, exc, result>>

\* lines 128-136
Complexity ==
    /\ pc = "complexity"
    /\ derived' = ComplexityStage(sections, generics, imps, dlls, derived)
    /\ pc' = "return"
    /\ UNCHANGED <<heap, enhanced_features, imps, exps, dlls, exc, result>>

\* lines 139-141
Return ==
    /\ pc = "return"
    /\ heap' = [heap EXCEPT ![enhanced_features] = SetItem(@, "derived", derived)]
    /\ result' = enhanced_features
    /\ pc' = "done"
    /\ UNCHANGED <<enhanced_features, derived, imps, exps, dlls, exc>>

Next == Copy \/ Load \/ Sections \/ Sizes \/ Imports \/ Resources \/ Complexity \/ Return

Spec == Init /\ [][Next]_vars

\* ------------------------------------------------------------------------
\* Properties

\* the caller's bundle
Input == heap[feature_dict]

Returned == pc = "done"

\* the 'derived' mapping of the returned bundle
Out == heap[result]["derived"]

ApiKeys == {ApisRatioKey(c) : c \in DOMAIN api_categories}

Vocabulary ==
    SectionKeys \cup SizeKeys \cup ApiKeys
    \cup {"derived_importToExportRatio", "derived_avgImportsPerDll"}
    \cup ResourceKeys \cup {"derived_overallComplexity"}

\* v is the number a / b
IsRatio(v, a, b) == v.k = "fin" /\ v.n * b = a * v.d

IsZero(v) == IsRatio(v, 0, 1)

AllZero(keys) == \A x \in keys : x \in DOMAIN Out /\ IsZero(Out[x])

InSections(key) == key \in DOMAIN Input["sections"]

InHeaders(key) == key \in DOMAIN Input["headers"]

InGenerics(key) == key \in DOMAIN Input["generics"]

Sec(key) == Input["sections"][key]

Gen(key) == Input["generics"][key]

SectionInputs ==
    {"pesectionProcessed_sectionsMinSize", "pesectionProcessed_sectionsMaxSize",
     "pesectionProcessed_sectionsMeanSize", "pesectionProcessed_sectionsMeanVirtualSize",
     "pesectionProcessed_sectionsMaxEntropy", "pesectionProcessed_sectionsMinEntropy",
     "pesectionProcessed_sectionsMeanEntropy"}

HeaderInputs ==
    {"header_SizeOfHeaders", "header_SizeOfCode",
     "header_SizeOfUninitializedData", "header_SizeOfInitializedData"}

ResourceInputs ==
    {"pesectionProcessed_resourcesMeanSize", "pesectionProcessed_resourcesMeanEntropy",
     "pesectionProcessed_resourcesMaxSize", "pesectionProcessed_resourcesMinSize"}

\* C1: whenever the call returns, the key set of 'derived' is the fixed
\* vocabulary of the five stages, whatever statistics the input supplies.
C1_FixedVocabulary == Returned => DOMAIN Out = Vocabulary

\* C2: when 'sections' has no resource-count key, the three resource outputs
\* are present in 'derived' and are all 0.
C2_NoResourceCountGivesZeros ==
    (Returned /\ ~InSections("pesectionProcessed_resources_nb")) => AllZero(ResourceKeys)

\* C3: the returned bundle holds every key of the input with the same value
\* and exactly one more key, 'derived'; the caller's bundle, nested mappings
\* included, is the same after every step of the call, also when it aborts.
C3_InputPreservedInOutput ==
    /\ [](Returned =>
            /\ DOMAIN heap[result] = DOMAIN Input \cup {"derived"}
            /\ "derived" \notin DOMAIN Input
            /\ \A x \in DOMAIN Input : heap[result][x] = Input[x])
    /\ [][heap'[feature_dict] = heap[feature_dict]]_vars

C3_Witness ==
    /\ Returned
    /\ DOMAIN Input = BundleKeys
    /\ heap[result]["rich"] = "rich-header"
    /\ DOMAIN Out # {}

MissingCollection == ~(Collections \subseteq DOMAIN Input)

\* C4: when imps, exps or dlls is absent from the bundle, the call ends in an
\* error and returns nothing: the import stage raises, no later stage runs
\* and no bundle (with or without a partial 'derived') is returned.
C4_MissingCollectionAborts ==
    /\ [](MissingCollection =>
            /\ pc \notin {"resources", "complexity", "return", "done"}
            /\ result = None
            /\ (pc = "raised" => exc = "KeyError"))
    /\ [][(MissingCollection /\ pc = "imports") => (pc' = "raised" /\ result' = None)]_vars

C4_Witness ==
    /\ pc = "raised"
    /\ "imps" \notin DOMAIN Input
    /\ SubMappings \subseteq DOMAIN Input
    /\ SectionKeys \cup SizeKeys \subseteq DOMAIN derived
    /\ result = None

\* the input keys a derived output is computed from
InputsOf(x) ==
    CASE x = "derived_sectionSizeRatio" ->
            {<<"sections", "pesectionProcessed_sectionsMaxSize">>,
             <<"sections", "pesectionProcessed_sectionsMinSize">>}
      [] x = "derived_virtualToRawRatio" ->
            {<<"sections", "pesectionProcessed_sectionsMeanVirtualSize">>,
             <<"sections", "pesectionProcessed_sectionsMeanSize">>}
      [] x = "derived_entropyVariance" ->
            {<<"sections", "pesectionProcessed_sectionsMaxEntropy">>,
             <<"sections", "pesectionProcessed_sectionsMinEntropy">>}
      [] x = "derived_meanToMaxEntropyRatio" ->
            {<<"sections", "pesectionProcessed_sectionsMeanEntropy">>,
             <<"sections", "pesectionProcessed_sectionsMaxEntropy">>}
      [] x = "derived_headerSizeRatio" ->
            {<<"headers", "header_SizeOfHeaders">>, <<"generics", "generic_fileSize">>}
      [] x = "derived_codeSizeRatio" ->
            {<<"headers", "header_SizeOfCode">>, <<"generics", "generic_fileSize">>}
      [] x = "derived_entropyToSizeRatio" ->
            {<<"generics", "generic_fileEntropy">>, <<"generics", "generic_fileSize">>}
      [] x = "derived_uninitializedRatio" ->
            {<<"headers", "header_SizeOfUninitializedData">>, <<"generics", "generic_fileSize">>}
      [] x = "derived_initializedRatio" ->
            {<<"headers", "header_SizeOfInitializedData">>, <<"generics", "generic_fileSize">>}
      [] x = "derived_resourceDensity" ->
            {<<"sections", "pesectionProcessed_resources_nb">>, <<"generics", "generic_fileSize">>}
      [] x = "derived_resourceComplexity" ->
            {<<"sections", "pesectionProcessed_resources_nb">>,
             <<"sections", "pesectionProcessed_resourcesMeanSize">>,
             <<"sections", "pesectionProcessed_resourcesMeanEntropy">>}
      [] x = "derived_resourceSizeVariance" ->
            {<<"sections", "pesectionProcessed_resources_nb">>,
             <<"sections", "pesectionProcessed_resourcesMaxSize">>,
             <<"sections", "pesectionProcessed_resourcesMinSize">>,
             <<"sections", "pesectionProcessed_resourcesMeanSize">>}
      [] x = "derived_overallComplexity" ->
            {<<"generics", "generic_fileSize">>, <<"generics", "generic_fileEntropy">>,
             <<"sections", "pesectionProcessed_sectionsMaxEntropy">>}
      [] OTHER -> {}

Missing(p) == ~(p[1] \in DOMAIN Input /\ p[2] \in DOMAIN Input[p[1]])

\* C5: with imps, exps and dlls supplied, a missing sections / headers /
\* generics key, inside a sub-mapping or at the top level, never makes the
\* call raise, and the outputs that depend on the missing key are 0.
C5_MissingKeyNeverRaises ==
    (Collections \subseteq DOMAIN Input) =>
        /\ pc # "raised"
        /\ Returned =>
            \A x \in Vocabulary :
                (\E p \in InputsOf(x) : Missing(p)) => (x \in DOMAIN Out /\ IsZero(Out[x]))

UpperChar(c) ==
    IF \E i \in 1..26 : LowerCase[i] = c
    THEN UpperCase[CHOOSE i \in 1..26 : LowerCase[i] = c]
    ELSE c

\* the (lower-case) keyword occurs in the name, in either case of each letter
OccursIgnoringCase(keyword, name) ==
    \E i \in 0..(Len(name) - Len(keyword)) :
        \A j \in 1..Len(keyword) : name[i + j] \in {keyword[j], UpperChar(keyword[j])}

ImportedNames == Range(Input["imps"])

Matching(category) ==
    {name \in ImportedNames :
        \E keyword \in api_categories[category] : OccursIgnoringCase(keyword, name)}

Third == [k |-> "fin", n |-> 1, d |-> 3]

\* C6: each derived_{category}ApisRatio is the number of distinct imported
\* names that contain a keyword of the category, case ignored, over the number
\* of distinct imported names; a name counts in every category it matches; the
\* ratio lies in [0, 1] and is 0 without imports; {CreateFileW, Send,
\* RegOpenKeyA} gives file = network = registry = 1/3.
C6_ApiCategoryRatios ==
    Returned =>
        /\ \A category \in DOMAIN api_categories :
            LET v == Out[ApisRatioKey(category)]
            IN  /\ v.k = "fin" /\ 0 <= v.n /\ v.n <= v.d
                /\ IF ImportedNames = {} THEN IsZero(v)
                   ELSE IsRatio(v, Cardinality(Matching(category)), Cardinality(ImportedNames))
        /\ ImportedNames = {CreateFileW, Send, RegOpenKeyA} =>
            /\ Out["derived_fileApisRatio"] = Third
            /\ Out["derived_networkApisRatio"] = Third
            /\ Out["derived_registryApisRatio"] = Third

C6_Witness ==
    /\ Returned
    /\ ImportedNames = {ReadProcessMemory, Sleep}
    /\ IsRatio(Out["derived_fileApisRatio"], 1, 2)
    /\ IsRatio(Out["derived_processApisRatio"], 1, 2)
    /\ IsZero(Out["derived_networkApisRatio"])

\* C7: with the collections taken as sets, derived_importToExportRatio is
\* |imps| / |exps|, and |imps| when nothing is exported; derived_avgImportsPerDll
\* is |imps| / |dlls|, and 0 when there is no dll.
C7_ImportExportRatios ==
    Returned =>
        LET ni == Cardinality(Range(Input["imps"]))
            ne == Cardinality(Range(Input["exps"]))
            nd == Cardinality(Range(Input["dlls"]))
        IN  /\ IF ne = 0 THEN IsRatio(Out["derived_importToExportRatio"], ni, 1)
               ELSE IsRatio(Out["derived_importToExportRatio"], ni, ne)
            /\ IF nd = 0 THEN IsZero(Out["derived_avgImportsPerDll"])
               ELSE IsRatio(Out["derived_avgImportsPerDll"], ni, nd)

C7_Witness ==
    /\ Returned
    /\ Input["imps"] = <<NameA, NameB>>
    /\ Input["exps"] = <<>>
    /\ Input["dlls"] = <<NameA, NameB, NameA>>
    /\ IsRatio(Out["derived_importToExportRatio"], 2, 1)
    /\ IsRatio(Out["derived_avgImportsPerDll"], 1, 1)

ZeroIn(key) == InSections(key) /\ Sec(key) = 0

\* C8: a zero denominator inside a defaulting stage makes every output of
\* that stage 0: the four section outputs when min size, mean size or max
\* entropy is 0, the five size outputs when fileSize is 0, the three resource
\* outputs when the mean resource size is 0.
C8_ZeroDenominatorZeroesStage ==
    Returned =>
        /\ (ZeroIn("pesectionProcessed_sectionsMinSize")
            \/ ZeroIn("pesectionProcessed_sectionsMeanSize")
            \/ ZeroIn("pesectionProcessed_sectionsMaxEntropy")) => AllZero(SectionKeys)
        /\ (InGenerics("generic_fileSize") /\ Gen("generic_fileSize") = 0) => AllZero(SizeKeys)
        /\ (InSections("pesectionProcessed_resources_nb")
            /\ ZeroIn("pesectionProcessed_resourcesMeanSize")) => AllZero(ResourceKeys)

\* v is a / b, and 0 when b is 0
IsGuardedRatio(v, a, b) == IF b = 0 THEN IsZero(v) ELSE IsRatio(v, a, b)

\* C8, amended: with the keys a stage refers to present, a zero denominator
\* makes 0 the outputs that divide by it and no other: each section ratio is 0
\* exactly under its own zero denominator while the other section outputs keep
\* their computed values; a zero mean resource size makes the size variance 0
\* (the density stays count / (fileSize / 1024)); fileSize 0, the one
\* denominator of the size stage, makes its five outputs 0.
C8_ZeroDenominatorZeroesItsOutput ==
    Returned =>
        /\ (SectionInputs \subseteq DOMAIN Input["sections"]) =>
            /\ IsGuardedRatio(Out["derived_sectionSizeRatio"],
                    Sec("pesectionProcessed_sectionsMaxSize"),
                    Sec("pesectionProcessed_sectionsMinSize"))
            /\ IsGuardedRatio(Out["derived_virtualToRawRatio"],
                    Sec("pesectionProcessed_sectionsMeanVirtualSize"),
                    Sec("pesectionProcessed_sectionsMeanSize"))
            /\ IsRatio(Out["derived_entropyVariance"],
                    Sec("pesectionProcessed_sectionsMaxEntropy")
                    - Sec("pesectionProcessed_sectionsMinEntropy"), 1)
            /\ IsGuardedRatio(Out["derived_meanToMaxEntropyRatio"],
                    Sec("pesectionProcessed_sectionsMeanEntropy"),
                    Sec("pesectionProcessed_sectionsMaxEntropy"))
        /\ (InGenerics("generic_fileSize") /\ Gen("generic_fileSize") = 0) => AllZero(SizeKeys)
        /\ (/\ InSections("pesectionProcessed_resources_nb")
            /\ ResourceInputs \subseteq DOMAIN Input["sections"]
            /\ InGenerics("generic_fileSize")
            /\ Sec("pesectionProcessed_resources_nb") > 0) =>
            /\ IF Gen("generic_fileSize") > 0
               THEN IsRatio(Out["derived_resourceDensity"],
                        Sec("pesectionProcessed_resources_nb") * 1024, Gen("generic_fileSize"))
               ELSE IsZero(Out["derived_resourceDensity"])
            /\ IsRatio(Out["derived_resourceComplexity"],
                    Sec("pesectionProcessed_resourcesMeanSize")
                    * Sec("pesectionProcessed_resourcesMeanEntropy"), 1)
            /\ IsGuardedRatio(Out["derived_resourceSizeVariance"],
                    Sec("pesectionProcessed_resourcesMaxSize")
                    - Sec("pesectionProcessed_resourcesMinSize"),
                    Sec("pesectionProcessed_resourcesMeanSize"))

C8_Witness ==
    /\ Returned
    /\ SectionInputs \subseteq DOMAIN Input["sections"]
    /\ ZeroIn("pesectionProcessed_sectionsMinSize")
    /\ IsZero(Out["derived_sectionSizeRatio"])
    /\ IsRatio(Out["derived_virtualToRawRatio"], 3, 2)
    /\ IsRatio(Out["derived_entropyVariance"], 5, 1)

\* C9: a missing referenced key makes a stage fail as a whole: any of the
\* seven section keys absent gives four zero section outputs; fileSize 0 or a
\* referenced headers / generics key absent gives five zero size outputs; the
\* resource count present and a later referenced key absent gives three zero
\* resource outputs.
C9_MissingKeyZeroesStage ==
    Returned =>
        /\ ~(SectionInputs \subseteq DOMAIN Input["sections"]) => AllZero(SectionKeys)
        /\ (\/ ~InGenerics("generic_fileSize")
            \/ Gen("generic_fileSize") = 0
            \/ ~InGenerics("generic_fileEntropy")
            \/ ~(HeaderInputs \subseteq DOMAIN Input["headers"])) => AllZero(SizeKeys)
        /\ (/\ InSections("pesectionProcessed_resources_nb")
            /\ (\/ ~InGenerics("generic_fileSize")
                \/ ~(ResourceInputs \subseteq DOMAIN Input["sections"]))) => AllZero(ResourceKeys)

ComplexityInputsValid ==
    /\ InGenerics("generic_fileSize")
    /\ InGenerics("generic_fileEntropy")
    /\ InSections("pesectionProcessed_sectionsMaxEntropy")
    /\ 1 + Gen("generic_fileSize") > 0

MeanOfTerms ==
    FDivInt(FAdd(FAdd(FDivInt(log1p(Gen("generic_fileSize")), 20),
                      Fin(Gen("generic_fileEntropy"), 8)),
                 FAdd(FDivInt(log1p(Cardinality(Range(Input["imps"]))), 10),
                      Fin(Sec("pesectionProcessed_sectionsMaxEntropy")
                          * Cardinality(Range(Input["dlls"])), 100))), 4)

\* C10: derived_overallComplexity is the mean of log(1+fileSize)/20,
\* fileEntropy/8, log(1+|imps|)/10 and maxEntropy*|dlls|/100 when the referenced
\* values are present and valid, and 0 when one is missing or 1 + fileSize is
\* not positive; it is always a number.
C10_OverallComplexity ==
    Returned =>
        /\ Out["derived_overallComplexity"].k = "fin"
        /\ IF ComplexityInputsValid
           THEN Out["derived_overallComplexity"] = MeanOfTerms
           ELSE IsZero(Out["derived_overallComplexity"])

====
